---- MODULE Spec2Model ----
(***************************************************************************)
(* A model of src/main.py: the Bybit page scraper, the Binance P2P API     *)
(* client, the rate derivation of main and the DataSaver.                  *)
(*                                                                         *)
(* Numbers.  A Python float that came out of float(<decimal text>) is      *)
(* modelled as an exact decimal in canonical form, [m |-> m, e |-> e]      *)
(* standing for m / 10^e with no trailing zero in the fraction.  Binary    *)
(* rounding and overflow to inf are outside the model.  A quotient         *)
(* (the derived rate) is an exact fraction [num, den].                     *)
(*                                                                         *)
(* Python dicts are records: a key the dict lacks is a field the record    *)
(* lacks, so d["k"] raises KeyError exactly when "k" \notin DOMAIN d.      *)
(***************************************************************************)
EXTENDS Integers, Sequences, FiniteSets, TLC

(***************************************************************************)
(* Bounds of the model.                                                    *)
(***************************************************************************)
MaxLen == 3          \* longest raw price text handed to clean_price alone
MaxRows == 2         \* most <tr> rows on a loaded Bybit page
MaxAds == 2          \* most records in the Binance "data" array
MaxRetriesArg == 3   \* largest max_retries argument tried on the scraper alone
MaxSaves == 2        \* most DataSaver calls in one behaviour

VARIABLES
    pc,            \* position of the running caller (main or a direct call)
    raised,        \* the exception that left the last call ("" when none)
    price_text,    \* argument of a direct _clean_price call
    cleaned,       \* what that call returned
    max_retries,   \* argument of BybitScraper.get_p2p_listings
    attempt,       \* loop variable of its attempt loop
    loads,         \* number of driver.get calls made so far
    timeouts,      \* number of attempts that ended in TimeoutException
    rows,          \* the <tr> elements of the loaded page
    resultbyb,     \* what BybitScraper.get_p2p_listings returned
    ended,         \* history: how its last attempt ended ("" before the first):
                   \* "loaded" or the name of the exception raised
    screenshot,    \* history: what save_screenshot did on that attempt ("" when
                   \* it was not reached): "saved", "not written" or "raised"
    response,      \* what session.post gave BinanceP2PAPI.get_p2p_listings
    resultbnb,     \* what BinanceP2PAPI.get_p2p_listings returned
    driver,        \* the browser session: "none", "open" or "quit"
    output,        \* the lines main has printed
    combined_data, \* the combined record built by the last save_data call
    saved_files,   \* what the last save_data call returned
    json_file,     \* the structured store (continuous_data.json)
    excel_file,    \* the tabular store (continuous_data.xlsx)
    restarts,      \* history: the values of `saves` at which a new DataSaver was built
    saves,         \* number of save_data calls so far
    json_saved,    \* history: the records of the successful JSON saves, in order
    json_failed,   \* history: some JSON save has failed
    json_env       \* history: what the file system did to the last JSON save: "ok",
                   \* "OSError", or "" when save_to_continuous_json was not called

cleanVars == <<price_text, cleaned>>
bybitVars == <<max_retries, attempt, loads, timeouts, rows, resultbyb, ended, screenshot>>
binanceVars == <<response, resultbnb>>
mainVars == <<driver, output>>
saverVars == <<combined_data, saved_files, json_file, excel_file, restarts, saves,
               json_saved, json_failed, json_env>>
vars == <<pc, raised, cleanVars, bybitVars, binanceVars, mainVars, saverVars>>

(***************************************************************************)
(* Python values.                                                          *)
(***************************************************************************)
None == [tag |-> "None"]
NL == "\n"
Digit == {"0", "1", "2", "3", "4", "5", "6", "7", "8", "9"}
Whitespace == {" ", NL}

DigitVal(c) ==
    CASE c = "0" -> 0 [] c = "1" -> 1 [] c = "2" -> 2 [] c = "3" -> 3
      [] c = "4" -> 4 [] c = "5" -> 5 [] c = "6" -> 6 [] c = "7" -> 7
      [] c = "8" -> 8 [] c = "9" -> 9

RECURSIVE Pow10(_)
Pow10(n) == IF n = 0 THEN 1 ELSE 10 * Pow10(n - 1)

\* the canonical decimal m / 10^e
RECURSIVE Decimal(_, _)
Decimal(m, e) ==
    IF e > 0 /\ m % 10 = 0 THEN Decimal(m \div 10, e - 1)
    ELSE [tag |-> "float", m |-> m, e |-> e]

IsFloat(v) == v.tag = "float"
Less(a, b) == a.m * Pow10(b.e) < b.m * Pow10(a.e)
Leq(a, b) == a.m * Pow10(b.e) <= b.m * Pow10(a.e)

\* str.isspace(): at least one character and all of them whitespace
isspace(s) == Len(s) > 0 /\ \A i \in 1..Len(s) : s[i] \in Whitespace

\* s.split('\n')[0]
RECURSIVE FirstLine(_)
FirstLine(s) ==
    IF s = <<>> \/ Head(s) = NL THEN <<>>
    ELSE <<Head(s)>> \o FirstLine(Tail(s))

\* re.sub(r'[^\d.]', '', s)
KeepsChar(c) == c \in Digit \/ c = "."
Residue(s) == SelectSeq(s, KeepsChar)

\* the integer written by a sequence of digits
RECURSIVE DigitsValue(_)
DigitsValue(s) ==
    IF s = <<>> THEN 0
    ELSE 10 * DigitsValue(SubSeq(s, 1, Len(s) - 1)) + DigitVal(s[Len(s)])

IsDigitChar(c) == c \in Digit
IsPoint(c) == c = "."
ValueError == [tag |-> "ValueError"]

\* float(s) for s made of digits and points only: ValueError unless s has a
\* digit and at most one point
float(s) ==
    LET points == Len(SelectSeq(s, IsPoint))
        digits == SelectSeq(s, IsDigitChar)
        pos == CHOOSE i \in 1..Len(s) : s[i] = "."
    IN  IF points > 1 \/ digits = <<>> THEN ValueError
        ELSE Decimal(DigitsValue(digits), IF points = 0 THEN 0 ELSE Len(s) - pos)

\* _clean_price without the split at the first line break
clean_price_whole_text(text) ==
    IF text = <<>> \/ isspace(text) THEN None
    ELSE LET price_str == Residue(text)
         IN  IF price_str = <<>> THEN None
             ELSE IF float(price_str) = ValueError THEN None
             ELSE float(price_str)

\* BybitScraper._clean_price
clean_price(text) ==
    IF text = <<>> \/ isspace(text) THEN None
    ELSE LET price_str == Residue(FirstLine(text))
         IN  IF price_str = <<>> THEN None
             ELSE IF float(price_str) = ValueError THEN None
             ELSE float(price_str)

(***************************************************************************)
(* BybitScraper: one <tr> of the page is [cell, text, info].               *)
(*   cell: "text" when td:nth-child(2) exists, with its text in `text`;    *)
(*         "NoSuchElement" when it is missing; "Stale" when looking it up  *)
(*         raises some other exception.                                    *)
(*   info: what looking up td 3..5 does: "full" (all found),               *)
(*         "NoSuchElement" (one is missing), "Stale" (another exception).  *)
(* Timestamps (datetime.now()) are left out of listings and envelopes.     *)
(***************************************************************************)
Row(cell, text, info) == [cell |-> cell, text |-> text, info |-> info]

\* str.strip()
RECURSIVE lstrip(_)
lstrip(s) == IF s # <<>> /\ Head(s) \in Whitespace THEN lstrip(Tail(s)) ELSE s
RECURSIVE rstrip(_)
rstrip(s) ==
    IF s # <<>> /\ s[Len(s)] \in Whitespace THEN rstrip(SubSeq(s, 1, Len(s) - 1))
    ELSE s
strip(s) == rstrip(lstrip(s))

\* the subclasses of Exception that occur in the model
RequestExceptions == {"ConnectionError", "RetryError", "HTTPError", "InvalidJSONError"}
Exceptions == {"NoSuchElementException", "StaleElementReferenceException",
               "WebDriverException", "TimeoutException",
               "KeyError", "IndexError", "TypeError", "ValueError",
               "ZeroDivisionError", "OSError", "JSONDecodeError",
               "UnicodeDecodeError"} \cup RequestExceptions

\* what a try body did: it raised `raised` ("" when it completed) and left
\* `value`
Completed(v) == [raised |-> "", value |-> v]
Raised(e) == [raised |-> e, value |-> <<>>]

\* BybitScraper._extract_additional_info: NoSuchElementException is caught
\* and gives the empty dict, any other exception leaves the function
extract_additional_info(row) ==
    CASE row.info = "full" ->
           Completed([available_amount |-> "amount", payment_methods |-> "methods",
                      merchant_name |-> "merchant"])
      [] row.info = "NoSuchElement" -> Completed(<<>>)
      [] row.info = "Stale" -> Raised("StaleElementReferenceException")

\* the try body of `for row in rows`: the listings it appends, or the
\* exception that leaves it
RowBody(row) ==
    CASE row.cell = "NoSuchElement" -> Raised("NoSuchElementException")
      [] row.cell = "Stale" -> Raised("StaleElementReferenceException")
      [] row.cell = "text" ->
           LET cleaned_price == clean_price(strip(row.text))
               info == extract_additional_info(row)
           IN  IF cleaned_price = None THEN Completed(<<>>)
               ELSE IF info.raised # "" THEN Raised(info.raised)
               ELSE Completed(<<[price |-> cleaned_price] @@ info.value>>)

\* a row loop that catches NoSuchElementException only
RowCatchesNoSuchElementOnly(e) == e = "NoSuchElementException"

\* `except (NoSuchElementException, Exception)` of the row loop
RowCatches(e) == e = "NoSuchElementException" \/ e \in Exceptions

\* the `for row in rows` loop, started with `listings`: the final list, or
\* the exception that leaves the loop
RECURSIVE ParseRows(_, _)
ParseRows(rs, listings) ==
    IF rs = <<>> THEN Completed(listings)
    ELSE LET body == RowBody(Head(rs))
         IN  IF body.raised = "" THEN ParseRows(Tail(rs), listings \o body.value)
             ELSE IF RowCatches(body.raised) THEN ParseRows(Tail(rs), listings)
             ELSE Raised(body.raised)

\* list.sort(key=lambda x: x['price']): a stable sort
RECURSIVE InsertByPrice(_, _)
InsertByPrice(x, sorted) ==
    IF sorted = <<>> THEN <<x>>
    ELSE IF Less(x.price, Head(sorted).price) THEN <<x>> \o sorted
    ELSE <<Head(sorted)>> \o InsertByPrice(x, Tail(sorted))

RECURSIVE SortByPrice(_)
SortByPrice(ls) ==
    IF ls = <<>> THEN <<>>
    ELSE InsertByPrice(ls[Len(ls)], SortByPrice(SubSeq(ls, 1, Len(ls) - 1)))

PriceNotNone(l) == l.price # None

TimeoutMessage == "Timeout error: Page failed to load after multiple attempts"
Failure(message) == [success |-> FALSE, data |-> None, message |-> message]

\* `except Exception as e` of the attempt: "Error: " + str(e)
ErrorMessage(e) ==
    CASE e = "NoSuchElementException" -> "Error: no such element"
      [] e = "StaleElementReferenceException" -> "Error: stale element reference"
      [] e = "WebDriverException" -> "Error: web driver failure"
      [] e = "TimeoutException" -> "Error: timeout"

\* what an attempt returns once the page is loaded and the screenshot taken
BybitParsed(rs) ==
    LET parsed == ParseRows(rs, <<>>)
        valid_listings == SortByPrice(SelectSeq(parsed.value, PriceNotNone))
    IN  IF parsed.raised # "" THEN Failure(ErrorMessage(parsed.raised))
        ELSE [success |-> TRUE,
              BYBIT |-> valid_listings,
              metadata |-> [token |-> "USDT", fiat |-> "NGN", action_type |-> "buy",
                            total_rows_found |-> Len(rs),
                            valid_listings_found |-> Len(valid_listings)]]

\* all pages of at most n rows drawn from R
Pages(R, n) == UNION {[1..k -> R] : k \in 0..n}

\* a timeout handler whose last-attempt test is off by one
BybitTimeoutOffByOne(ret) ==
    /\ pc = "bybit"
    /\ attempt < max_retries
    /\ loads' = loads + 1
    /\ timeouts' = timeouts + 1
    /\ IF attempt = max_retries
       THEN /\ resultbyb' = Failure(TimeoutMessage)
            /\ pc' = ret
            /\ UNCHANGED attempt
       ELSE /\ attempt' = attempt + 1
            /\ UNCHANGED <<resultbyb, pc>>
    /\ ended' = "TimeoutException"
    /\ screenshot' = ""
    /\ UNCHANGED <<raised, max_retries, rows, cleanVars, binanceVars, mainVars, saverVars>>

\* driver.get / WebDriverWait raises TimeoutException on this attempt
BybitTimeout(ret) ==
    /\ pc = "bybit"
    /\ attempt < max_retries
    /\ loads' = loads + 1
    /\ timeouts' = timeouts + 1
    /\ IF attempt = max_retries - 1
       THEN /\ resultbyb' = Failure(TimeoutMessage)
            /\ pc' = ret
            /\ UNCHANGED attempt
       ELSE /\ attempt' = attempt + 1
            /\ UNCHANGED <<resultbyb, pc>>
    /\ ended' = "TimeoutException"
    /\ screenshot' = ""
    /\ UNCHANGED <<raised, max_retries, rows, cleanVars, binanceVars, mainVars, saverVars>>

\* the exceptions other than TimeoutException that driver.get, the wait or
\* find_elements raise
AttemptExceptions == {"WebDriverException", "StaleElementReferenceException"}

\* an attempt loop that treats every exception as it treats a timeout
BybitErrorRetried(ret) ==
    /\ pc = "bybit"
    /\ attempt < max_retries
    /\ loads' = loads + 1
    /\ \E e \in AttemptExceptions :
          /\ ended' = e
          /\ IF attempt = max_retries - 1
             THEN /\ resultbyb' = Failure(ErrorMessage(e))
                  /\ pc' = ret
                  /\ UNCHANGED attempt
             ELSE /\ attempt' = attempt + 1
                  /\ UNCHANGED <<resultbyb, pc>>
    /\ screenshot' = ""
    /\ UNCHANGED <<raised, max_retries, timeouts, rows, cleanVars, binanceVars,
                   mainVars, saverVars>>

\* driver.get, the wait or find_elements raises anything but TimeoutException:
\* `except Exception as e` returns at once
BybitError(ret) ==
    /\ pc = "bybit"
    /\ attempt < max_retries
    /\ loads' = loads + 1
    /\ \E e \in AttemptExceptions :
          /\ ended' = e
          /\ resultbyb' = Failure(ErrorMessage(e))
    /\ screenshot' = ""
    /\ pc' = ret
    /\ UNCHANGED <<raised, max_retries, attempt, timeouts, rows, cleanVars, binanceVars,
                   mainVars, saverVars>>

\* the page loads and driver.save_screenshot raises (the screenshot command
\* fails in the browser): the call is inside the attempt's try and has no
\* handler of its own, so `except Exception as e` returns before the rows
\* are looked up
BybitScreenshotFails(ret) ==
    /\ pc = "bybit"
    /\ attempt < max_retries
    /\ loads' = loads + 1
    /\ ended' = "WebDriverException"
    /\ screenshot' = "raised"
    /\ resultbyb' = Failure(ErrorMessage("WebDriverException"))
    /\ pc' = ret
    /\ UNCHANGED <<raised, max_retries, attempt, timeouts, rows, cleanVars, binanceVars,
                   mainVars, saverVars>>

\* the page loads: the screenshot is saved, or save_screenshot returns False
\* because the file could not be written (it catches the IOError itself);
\* then rows are enumerated, parsed, sorted and returned
BybitLoaded(ret, R) ==
    /\ pc = "bybit"
    /\ attempt < max_retries
    /\ loads' = loads + 1
    /\ screenshot' \in {"saved", "not written"}
    /\ \E page \in Pages(R, MaxRows) :
          /\ rows' = page
          /\ resultbyb' = BybitParsed(page)
    /\ ended' = IF ParseRows(rows', <<>>).raised = "" THEN "loaded"
                ELSE ParseRows(rows', <<>>).raised
    /\ pc' = ret
    /\ UNCHANGED <<raised, max_retries, attempt, timeouts, cleanVars, binanceVars,
                   mainVars, saverVars>>

\* range(max_retries) is exhausted without a return: the function returns None
BybitFallThrough(ret) ==
    /\ pc = "bybit"
    /\ attempt >= max_retries
    /\ resultbyb' = None
    /\ pc' = ret
    /\ UNCHANGED <<raised, max_retries, attempt, loads, timeouts, rows, ended,
                   screenshot, cleanVars, binanceVars, mainVars, saverVars>>

PriceTexts == {<<"0">>, <<"1">>, <<" ", "2">>, <<"-">>}
AllRows ==
    {Row("NoSuchElement", <<>>, "full"), Row("Stale", <<>>, "full")}
    \cup {Row("text", t, i) : t \in PriceTexts, i \in {"full", "NoSuchElement", "Stale"}}

(***************************************************************************)
(* BinanceP2PAPI.  What session.post gives is one record:                  *)
(*   exc    the RequestException session.post raised ("" when it returned) *)
(*   status the HTTP status of the response it returned                    *)
(*   body   "dict" / "list" when the body decodes to a JSON object / array,*)
(*          "text" when it does not decode and response.json() raises      *)
(*          requests' JSONDecodeError (an InvalidJSONError), "text-legacy" *)
(*          when it raises a plain ValueError (requests before 2.27)       *)
(*   json   the decoded object                                             *)
(* The mounted Retry adapter (total = 3) is library code: how many         *)
(* requests it sends before it gives up is left open, only its final       *)
(* outcome is an input.  Price texts of the API are unsigned decimals or   *)
(* not numbers at all.                                                     *)
(***************************************************************************)
Response(exc, status, body, json) ==
    [exc |-> exc, status |-> status, body |-> body, json |-> json]

\* dict d without key k
Without(d, k) == [x \in DOMAIN d \ {k} |-> d[x]]

Ad(price, advertiser) ==
    [adv |-> [price |-> price, surplusAmount |-> "amount",
              tradeMethods |-> <<[identifier |-> "bank"], [identifier |-> "momo"]>>],
     advertiser |-> advertiser]
WithNick == [userNo |-> "u1", nickName |-> "nick"]
NoNick == [userNo |-> "u1"]

\* float(x) for the price texts of the API
apifloat(text) ==
    IF \A i \in 1..Len(text) : KeepsChar(text[i]) THEN float(text) ELSE ValueError

\* ", ".join(method["identifier"] for method in methods)
RECURSIVE JoinIdentifiers(_)
JoinIdentifiers(methods) ==
    IF methods = <<>> THEN <<>>
    ELSE <<Head(methods).identifier>> \o JoinIdentifiers(Tail(methods))

\* the body of `for ad in data["data"]`: the listing it appends, or the
\* exception raised while the dict literal is evaluated, key by key
AdBody(ad) ==
    IF "adv" \notin DOMAIN ad THEN Raised("KeyError")
    ELSE IF "price" \notin DOMAIN ad.adv THEN Raised("KeyError")
    ELSE IF apifloat(ad.adv.price) = ValueError THEN Raised("ValueError")
    ELSE IF "surplusAmount" \notin DOMAIN ad.adv THEN Raised("KeyError")
    ELSE IF "tradeMethods" \notin DOMAIN ad.adv THEN Raised("KeyError")
    ELSE IF \E i \in 1..Len(ad.adv.tradeMethods) :
                "identifier" \notin DOMAIN ad.adv.tradeMethods[i] THEN Raised("KeyError")
    ELSE IF "advertiser" \notin DOMAIN ad THEN Raised("KeyError")
    ELSE Completed(<<[price |-> apifloat(ad.adv.price),
                      available_amount |-> ad.adv.surplusAmount,
                      payment_methods |-> JoinIdentifiers(ad.adv.tradeMethods),
                      merchant_name |->
                          IF "nickName" \in DOMAIN ad.advertiser
                          THEN ad.advertiser.nickName ELSE "Unknown"]>>)

\* a record loop that drops a record it cannot read and goes on
RECURSIVE ParseAdsSkipping(_, _)
ParseAdsSkipping(ads, listings) ==
    IF ads = <<>> THEN Completed(listings)
    ELSE LET body == AdBody(Head(ads))
         IN  IF body.raised = "" THEN ParseAdsSkipping(Tail(ads), listings \o body.value)
             ELSE ParseAdsSkipping(Tail(ads), listings)

\* the `for ad in data["data"]` loop, started with `listings`
RECURSIVE ParseAds(_, _)
ParseAds(ads, listings) ==
    IF ads = <<>> THEN Completed(listings)
    ELSE LET body == AdBody(Head(ads))
         IN  IF body.raised = "" THEN ParseAds(Tail(ads), listings \o body.value)
             ELSE Raised(body.raised)

\* the try body of BinanceP2PAPI.get_p2p_listings: the envelope it returns
\* or the exception that leaves it
BinanceBody(resp) ==
    IF resp.exc # "" THEN Raised(resp.exc)
    ELSE IF resp.status >= 400 THEN Raised("HTTPError")
    ELSE IF resp.body = "text" THEN Raised("InvalidJSONError")
    ELSE IF resp.body = "text-legacy" THEN Raised("ValueError")
    ELSE IF resp.body # "dict" \/ "data" \notin DOMAIN resp.json THEN Raised("ValueError")
    ELSE LET parsed == ParseAds(resp.json.data, <<>>)
         IN  IF parsed.raised # "" THEN Raised(parsed.raised)
             ELSE Completed([success |-> TRUE, BINANCE |-> SortByPrice(parsed.value)])

RequestFailedMessage(e) ==
    CASE e = "ConnectionError" -> "Request failed: connection error"
      [] e = "RetryError" -> "Request failed: too many 503 error responses"
      [] e = "HTTPError" -> "Request failed: 503 Server Error"
      [] e = "InvalidJSONError" -> "Request failed: body is not JSON"
UnexpectedMessage(e) ==
    CASE e = "KeyError" -> "Unexpected error: key"
      [] e = "ValueError" -> "Unexpected error: value"
      [] e = "TypeError" -> "Unexpected error: type"
      [] e \in RequestExceptions -> "Unexpected error: request"

\* a client without the `except RequestException` clause
NeverRequestException(e) == FALSE

\* `except requests.exceptions.RequestException`
IsRequestException(e) == e \in RequestExceptions

\* BinanceP2PAPI.get_p2p_listings from session.post on: try body and the two
\* except clauses
BinanceCall(resp) ==
    LET body == BinanceBody(resp)
    IN  IF body.raised = "" THEN Completed(body.value)
        ELSE IF IsRequestException(body.raised)
             THEN Completed(Failure(RequestFailedMessage(body.raised)))
        ELSE IF body.raised \in Exceptions
             THEN Completed(Failure(UnexpectedMessage(body.raised)))
        ELSE Raised(body.raised)

ApiPriceTexts == {<<"0">>, <<"1">>, <<"2", ".", "5">>}
GoodAds == {Ad(p, a) : p \in ApiPriceTexts, a \in {WithNick, NoNick}}
BadAds ==
    {Without(Ad(<<"1">>, WithNick), "adv"),
     Without(Ad(<<"1">>, WithNick), "advertiser"),
     [Ad(<<"1">>, WithNick) EXCEPT !.adv = Without(@, "price")],
     [Ad(<<"1">>, WithNick) EXCEPT !.adv = Without(@, "surplusAmount")],
     [Ad(<<"1">>, WithNick) EXCEPT !.adv = Without(@, "tradeMethods")],
     Ad(<<"x">>, WithNick)}
AllAds == GoodAds \cup BadAds

\* the payloads of at most n records drawn from A
Payloads(A, n) == UNION {[1..k -> A] : k \in 0..n}

\* everything session.post can give, with records drawn from A
Responses(A) ==
    {Response(e, 0, "text", <<>>) : e \in {"ConnectionError", "RetryError"}}
    \cup {Response("", 503, "text", <<>>), Response("", 200, "text", <<>>),
          Response("", 200, "text-legacy", <<>>),
          Response("", 200, "list", <<>>),
          Response("", 200, "dict", [code |-> "000002"])}
    \cup {Response("", 200, "dict", [code |-> "000000", data |-> d]) :
             d \in Payloads(A, MaxAds)}

\* BinanceP2PAPI.get_p2p_listings, whole
BinanceFetch(ret, A) ==
    /\ pc = "binance"
    /\ \E resp \in Responses(A) :
          /\ response' = resp
          /\ IF BinanceCall(resp).raised = ""
             THEN /\ resultbnb' = BinanceCall(resp).value
                  /\ pc' = ret
                  /\ UNCHANGED raised
             ELSE /\ raised' = BinanceCall(resp).raised
                  /\ pc' = "except"
                  /\ UNCHANGED resultbnb
    /\ UNCHANGED <<cleanVars, bybitVars, mainVars, saverVars>>

(***************************************************************************)
(* DataSaver.  The structured store is a file of JSON text, kept as the    *)
(* sequence of its tokens: "[", "]", "," and one "obj" token per record,   *)
(* whose numbers are written as decimal text (repr) and read back with     *)
(* float.  A write that fails after open(..., 'w') leaves a proper prefix  *)
(* of the text.  The tabular store keeps its rows; a failed to_excel       *)
(* leaves a workbook that cannot be read.  A file whose bytes are not      *)
(* UTF-8 (a write cut inside a multi-byte character leaves one, since      *)
(* json.dump runs with ensure_ascii=False) holds the token InvalidBytes.   *)
(***************************************************************************)
Path(name) == [tag |-> "Path", name |-> name]
continuous_excel_path == Path("pb2b/excel/continuous_data.xlsx")
continuous_json_path == Path("pb2b/json/continuous_data.json")

MissingFile == [exists |-> FALSE, text |-> <<>>]
MissingExcel == [state |-> "missing", rows |-> <<>>]

DigitChar(d) == CHOOSE c \in Digit : DigitVal(c) = d
\* the decimal digits of n
RECURSIVE IntDigits(_)
IntDigits(n) ==
    IF n < 10 THEN <<DigitChar(n)>> ELSE IntDigits(n \div 10) \o <<DigitChar(n % 10)>>
\* the last w decimal digits of n, zero-padded
RECURSIVE PadDigits(_, _)
PadDigits(n, w) ==
    IF w = 0 THEN <<>> ELSE PadDigits(n \div 10, w - 1) \o <<DigitChar(n % 10)>>
\* repr(x) of a float, as json.dump writes it: 2.5, 1.0, 0.0
FloatRepr(v) ==
    IntDigits(v.m \div Pow10(v.e)) \o <<".">>
        \o (IF v.e = 0 THEN <<"0">> ELSE PadDigits(v.m % Pow10(v.e), v.e))

\* a listing as JSON text and back
EncodeListing(l) == [l EXCEPT !.price = FloatRepr(@)]
DecodeListing(l) == [l EXCEPT !.price = float(@)]
EncodeListings(ls) == [i \in 1..Len(ls) |-> EncodeListing(ls[i])]
DecodeListings(ls) == [i \in 1..Len(ls) |-> DecodeListing(ls[i])]
EncodeRecord(r) ==
    [r EXCEPT !.bybit = EncodeListings(@), !.binance = EncodeListings(@)]
DecodeRecord(r) ==
    [r EXCEPT !.bybit = DecodeListings(@), !.binance = DecodeListings(@)]

Token(t) == [tok |-> t]
ObjToken(r) == [tok |-> "obj", value |-> EncodeRecord(r)]

\* json.dump(existing_data, f): the text of a list of records
RECURSIVE JsonItems(_)
JsonItems(list) ==
    IF list = <<>> THEN <<>>
    ELSE IF Len(list) = 1 THEN <<ObjToken(list[1])>>
    ELSE <<ObjToken(Head(list)), Token(",")>> \o JsonItems(Tail(list))
JsonDump(list) == <<Token("[")>> \o JsonItems(list) \o <<Token("]")>>

InvalidBytes == Token("not UTF-8")

\* json.load(f) on a file opened with encoding='utf-8': f.read() decodes the
\* bytes (UnicodeDecodeError), then the text is parsed (JSONDecodeError)
JsonLoad(text) ==
    LET n == Len(text)
        inner == SubSeq(text, 2, n - 1)
        wellFormed ==
            /\ n >= 2 /\ text[1] = Token("[") /\ text[n] = Token("]")
            /\ (Len(inner) = 0 \/ Len(inner) % 2 = 1)
            /\ \A i \in 1..Len(inner) :
                  IF i % 2 = 1 THEN inner[i].tok = "obj" ELSE inner[i] = Token(",")
    IN  IF \E i \in 1..n : text[i] = InvalidBytes THEN Raised("UnicodeDecodeError")
        ELSE IF wellFormed
        THEN Completed([i \in 1..((Len(inner) + 1) \div 2) |->
                            DecodeRecord(inner[2 * i - 1].value)])
        ELSE Raised("JSONDecodeError")

\* lines 860-868: the list the new record is appended to; only
\* json.JSONDecodeError is handled there, any other exception leaves the block
ExistingData(file) ==
    IF file.exists /\ Len(file.text) > 0
    THEN LET existing_data == JsonLoad(file.text)
         IN  IF existing_data.raised = "" THEN existing_data
             ELSE IF existing_data.raised = "JSONDecodeError" THEN Completed(<<>>)
             ELSE Raised(existing_data.raised)
    ELSE Completed(<<>>)

\* what the file system does to a writer: nothing, an OSError before the
\* store is opened for writing, or an OSError while it is written
SaveOutcomes == {"ok", "fails before the write", "fails in the write"}

\* a JSON save that writes the new record alone
JsonWrittenAlone(file, data) == JsonDump(<<data>>)

\* the text save_to_continuous_json writes when nothing fails
JsonWritten(file, data) == JsonDump(Append(ExistingData(file).value, data))

\* a writer whose handler catches nothing
SaverCatchesNothing(e) == FALSE

\* `except Exception as e` of the two writers
SaverCatches(e) == e \in Exceptions

\* lines 855-878, the try body of save_to_continuous_json: the file it
\* leaves, the path it returns and the exception that leaves it, if any
JsonBody(file, data, outcome, cut) ==
    CASE outcome = "fails before the write" ->
           [file |-> file, path |-> None, raised |-> "OSError"]
      [] outcome # "fails before the write" /\ ExistingData(file).raised # "" ->
           [file |-> file, path |-> None, raised |-> ExistingData(file).raised]
      [] outcome = "ok" /\ ExistingData(file).raised = "" ->
           [file |-> [exists |-> TRUE, text |-> JsonWritten(file, data)],
            path |-> continuous_json_path, raised |-> ""]
      [] outcome = "fails in the write" /\ ExistingData(file).raised = "" ->
           [file |-> [exists |-> TRUE,
                      text |-> SubSeq(JsonWritten(file, data), 1, cut)],
            path |-> None, raised |-> "OSError"]

\* DataSaver.save_to_continuous_json: the file it leaves, what it returns
\* and the exception that leaves it, if any
save_to_continuous_json(file, data, outcome, cut) ==
    LET body == JsonBody(file, data, outcome, cut)
    IN  IF body.raised # "" /\ SaverCatches(body.raised)
        THEN [body EXCEPT !.raised = ""]
        ELSE body

\* the rows of one source's DataFrame, tagged with the source
Tagged(ls, source) == [i \in 1..Len(ls) |-> ls[i] @@ [source |-> source]]

\* lines 800-834, the try body of save_to_continuous_excel: an unreadable
\* workbook makes read_excel raise, whatever else happens
ExcelBody(file, data, outcome) ==
    LET combined_df == Tagged(data.bybit, "Bybit") \o Tagged(data.binance, "Binance")
    IN  CASE file.state = "corrupt" ->
               [file |-> file, path |-> None, raised |-> "ValueError"]
          [] file.state # "corrupt" /\ outcome = "fails before the write" ->
               [file |-> file, path |-> None, raised |-> "OSError"]
          [] file.state # "corrupt" /\ outcome = "ok" ->
               [file |-> [state |-> "ok", rows |-> file.rows \o combined_df],
                path |-> continuous_excel_path, raised |-> ""]
          [] file.state # "corrupt" /\ outcome = "fails in the write" ->
               [file |-> [state |-> "corrupt", rows |-> <<>>], path |-> None,
                raised |-> "OSError"]

\* DataSaver.save_to_continuous_excel: the file it leaves, what it returns
\* and the exception that leaves it, if any
save_to_continuous_excel(file, data, outcome) ==
    LET body == ExcelBody(file, data, outcome)
    IN  IF body.raised # "" /\ SaverCatches(body.raised)
        THEN [body EXCEPT !.raised = ""]
        ELSE body

\* Python truth of d.get("success") and of d.get(<list key>)
GetsTrue(d, k) == k \in DOMAIN d /\ d[k] = TRUE
GetsNonEmpty(d, k) == k \in DOMAIN d /\ d[k] # <<>>

\* a record that is successful only when both sources contribute
CombinedDataBothNeeded(bybit_data, binance_data) ==
    LET byb == bybit_data # None /\ GetsTrue(bybit_data, "success")
                   /\ GetsNonEmpty(bybit_data, "BYBIT")
        bnb == binance_data # None /\ GetsTrue(binance_data, "success")
                   /\ GetsNonEmpty(binance_data, "BINANCE")
    IN  [success |-> byb /\ bnb,
         bybit |-> IF byb THEN bybit_data.BYBIT ELSE <<>>,
         binance |-> IF bnb THEN binance_data.BINANCE ELSE <<>>]

\* lines 904-919: the combined record save_data builds
CombinedData(bybit_data, binance_data) ==
    LET byb == bybit_data # None /\ GetsTrue(bybit_data, "success")
                   /\ GetsNonEmpty(bybit_data, "BYBIT")
        bnb == binance_data # None /\ GetsTrue(binance_data, "success")
                   /\ GetsNonEmpty(binance_data, "BINANCE")
    IN  [success |-> byb \/ bnb,
         bybit |-> IF byb THEN bybit_data.BYBIT ELSE <<>>,
         binance |-> IF bnb THEN binance_data.BINANCE ELSE <<>>]

\* DataSaver.save_data, whole: builds the record and, when it has data,
\* writes both stores, each write failing or not; an exception that leaves
\* a writer leaves save_data, and the caller's handler at `exc`
SaveData(bybit_data, binance_data, ret, exc) ==
    \E combined \in {CombinedData(bybit_data, binance_data)} :
        /\ combined_data' = combined
        /\ saves' = saves + 1
        /\ UNCHANGED restarts
        /\ IF combined.success
           THEN \E xo \in SaveOutcomes, jo \in SaveOutcomes :
                \E cut \in IF jo = "fails in the write"
                           THEN 0..(Len(JsonWritten(json_file, combined)) - 1)
                           ELSE {0} :
                \E x \in {save_to_continuous_excel(excel_file,
                             [bybit |-> combined.bybit, binance |-> combined.binance], xo)},
                   j \in {save_to_continuous_json(json_file, combined, jo, cut)} :
                      /\ excel_file' = x.file
                      /\ IF x.raised # ""
                         THEN /\ raised' = x.raised
                              /\ pc' = exc
                              /\ json_env' = ""
                              /\ UNCHANGED <<json_file, saved_files, json_saved,
                                             json_failed>>
                         ELSE /\ json_file' = j.file
                              /\ json_env' = IF jo = "ok" THEN "ok" ELSE "OSError"
                              /\ json_saved' = IF j.path # None
                                               THEN Append(json_saved, combined)
                                               ELSE json_saved
                              /\ json_failed' = (json_failed \/ j.path = None)
                              /\ IF j.raised # ""
                                 THEN /\ raised' = j.raised
                                      /\ pc' = exc
                                      /\ UNCHANGED saved_files
                                 ELSE /\ saved_files' =
                                            [continuous_excel_path |-> x.path,
                                             continuous_json_path |-> j.path]
                                      /\ pc' = ret
                                      /\ UNCHANGED raised
           ELSE /\ saved_files' = [continuous_excel_path |-> None,
                                   continuous_json_path |-> None]
                /\ json_env' = ""
                /\ pc' = ret
                /\ UNCHANGED <<raised, excel_file, json_file, json_saved, json_failed>>

(***************************************************************************)
(* main (the second definition, the one the module runs).                  *)
(***************************************************************************)
DefaultMaxRetries == 10
ReferenceAmount == 1000

\* a quotient of exact decimals, num / den
Quotient(num, den) == [tag |-> "float", num |-> num, den |-> den]

\* a lookup that falls back to a price of 1 when the listing is not there
CheapestPriceOrOne(d, k) ==
    IF d = None \/ k \notin DOMAIN d THEN Completed(Decimal(1, 0))
    ELSE IF d[k] = <<>> THEN Completed(Decimal(1, 0))
    ELSE Completed(d[k][1].price)

\* d[k][0]['price'] for a result envelope d: the price or the exception
CheapestPrice(d, k) ==
    IF d = None THEN Raised("TypeError")
    ELSE IF k \notin DOMAIN d THEN Raised("KeyError")
    ELSE IF d[k] = <<>> THEN Raised("IndexError")
    ELSE Completed(d[k][1].price)

\* lines 1028-1029: rate_xaf = 1000 / B's first price, then
\* rate_ngn = rate_xaf * A's first price; or the exception raised on the way
Rate(byb, bnb) ==
    LET pb == CheapestPrice(bnb, "BINANCE")
        pa == CheapestPrice(byb, "BYBIT")
    IN  IF pb.raised # "" THEN Raised(pb.raised)
        ELSE IF pb.value.m = 0 THEN Raised("ZeroDivisionError")
        ELSE IF pa.raised # "" THEN Raised(pa.raised)
        ELSE Completed(Quotient(ReferenceAmount * Pow10(pb.value.e) * pa.value.m,
                                pb.value.m * Pow10(pa.value.e)))

\* line 1010, BybitScraper(headless=True): the constructor opens the browser
\* session as its last step
MainConstruct ==
    /\ pc = "main"
    /\ driver' = "open"
    /\ pc' = "components"
    /\ UNCHANGED <<raised, output, cleanVars, bybitVars, binanceVars, saverVars>>

\* line 1010 raises (directories, log file or webdriver.Chrome): no session
\* was opened and the exception leaves main, which has no try block yet
MainConstructFails ==
    /\ pc = "main"
    /\ \E e \in {"OSError", "WebDriverException"} : raised' = e
    /\ pc' = "crashed"
    /\ UNCHANGED <<driver, output, cleanVars, bybitVars, binanceVars, saverVars>>

\* lines 1011-1012, BinanceP2PAPI() and DataSaver(), then the try block is
\* entered
MainComponents ==
    /\ pc = "components"
    /\ pc' = "bybit"
    /\ UNCHANGED <<raised, mainVars, cleanVars, bybitVars, binanceVars, saverVars>>

\* line 1011 or 1012 raises (DataSaver() makes its directories and opens its
\* log file): the try block of line 1015 is not entered yet, so neither the
\* except nor the finally clause runs and the exception leaves main
MainComponentsFail ==
    /\ pc = "components"
    /\ raised' = "OSError"
    /\ pc' = "crashed"
    /\ UNCHANGED <<mainVars, cleanVars, bybitVars, binanceVars, saverVars>>

\* a derivation that rebuilds source A's envelope around the rate
MainRateRebuilding ==
    /\ pc = "rate"
    /\ IF Rate(resultbyb, resultbnb).raised = ""
       THEN /\ resultbyb' = [success |-> resultbyb.success, BYBIT |-> resultbyb.BYBIT,
                             RATE |-> Rate(resultbyb, resultbnb).value]
            /\ pc' = "save"
            /\ UNCHANGED raised
       ELSE /\ raised' = Rate(resultbyb, resultbnb).raised
            /\ pc' = "except"
            /\ UNCHANGED resultbyb
    /\ UNCHANGED <<max_retries, attempt, loads, timeouts, rows, ended, screenshot,
                   cleanVars, binanceVars, mainVars, saverVars>>

\* lines 1028-1030
MainRate ==
    /\ pc = "rate"
    /\ IF Rate(resultbyb, resultbnb).raised = ""
       THEN /\ resultbyb' = resultbyb @@ [RATE |-> Rate(resultbyb, resultbnb).value]
            /\ pc' = "save"
            /\ UNCHANGED raised
       ELSE /\ raised' = Rate(resultbyb, resultbnb).raised
            /\ pc' = "except"
            /\ UNCHANGED resultbyb
    /\ UNCHANGED <<max_retries, attempt, loads, timeouts, rows, ended, screenshot,
                   cleanVars, binanceVars, mainVars, saverVars>>

\* lines 1033-1036
MainSave ==
    /\ pc = "save"
    /\ SaveData(resultbyb, resultbnb, "summary", "except")
    /\ UNCHANGED <<cleanVars, bybitVars, binanceVars, mainVars>>

\* the lines the summary prints for one source (lines 1048-1064)
SourceLines(d, k, name) ==
    IF GetsTrue(d, "success") /\ GetsNonEmpty(d, k)
    THEN <<name \o " Results:">>
    ELSE IF k = "BYBIT" THEN <<"Bybit scraping failed or returned no data">>
    ELSE <<"Binance API call failed or returned no data">>

\* lines 1043-1070: the summary, then saved_files['excel_path'], a key
\* save_data never sets
MainSummary ==
    /\ pc = "summary"
    /\ output' = output \o <<"P2P Listing Scraping Results:">>
                     \o SourceLines(resultbyb, "BYBIT", "Bybit")
                     \o SourceLines(resultbnb, "BINANCE", "Binance")
    /\ IF "excel_path" \in DOMAIN saved_files /\ "json_path" \in DOMAIN saved_files
       THEN pc' = "finally" /\ UNCHANGED raised
       ELSE pc' = "except" /\ raised' = "KeyError"
    /\ UNCHANGED <<driver, cleanVars, bybitVars, binanceVars, saverVars>>

\* lines 1072-1074
MainExcept ==
    /\ pc = "except"
    /\ output' = output \o <<"Error in main execution: " \o raised>>
    /\ pc' = "finally"
    /\ UNCHANGED <<raised, driver, cleanVars, bybitVars, binanceVars, saverVars>>

\* lines 1075-1076 and BybitScraper.close
MainFinally ==
    /\ pc = "finally"
    /\ driver' = IF driver = "open" THEN "quit" ELSE driver
    /\ pc' = "done"
    /\ UNCHANGED <<raised, output, cleanVars, bybitVars, binanceVars, saverVars>>

(***************************************************************************)
(* Specifications of the parts called on their own.                        *)
(***************************************************************************)
Chars == {"0", "1", "5", ".", "-", " ", NL}
Texts == UNION {[1..k -> Chars] : k \in 0..MaxLen}
NoResult == [tag |-> "NoResult"]
NoResponse == [tag |-> "NoResponse"]

CleanIdle == price_text = <<>> /\ cleaned = NoResult
ScraperIdle ==
    /\ max_retries = 0 /\ attempt = 0 /\ loads = 0 /\ timeouts = 0 /\ rows = <<>>
    /\ resultbyb = NoResult /\ ended = "" /\ screenshot = ""
BinanceIdle == response = NoResponse /\ resultbnb = NoResult
MainIdle == driver = "none" /\ output = <<>>
SaverIdle ==
    /\ combined_data = NoResult /\ saved_files = NoResult
    /\ json_file = MissingFile /\ excel_file = MissingExcel
    /\ restarts = {} /\ saves = 0 /\ json_saved = <<>> /\ json_failed = FALSE
    /\ json_env = ""

\* a direct call of _clean_price on any raw text
CleanInit ==
    /\ pc = "clean" /\ raised = ""
    /\ price_text \in Texts /\ cleaned = NoResult
    /\ ScraperIdle /\ BinanceIdle /\ MainIdle /\ SaverIdle
CleanPrice ==
    /\ pc = "clean"
    /\ cleaned' = clean_price(price_text)
    /\ pc' = "done"
    /\ UNCHANGED <<raised, price_text, bybitVars, binanceVars, mainVars, saverVars>>
CleanNext == CleanPrice
CleanSpec == CleanInit /\ [][CleanNext]_vars

\* a direct call of BybitScraper.get_p2p_listings with any max_retries
ScraperInit ==
    /\ pc = "bybit" /\ raised = ""
    /\ CleanIdle /\ BinanceIdle /\ MainIdle /\ SaverIdle
    /\ max_retries \in 0..MaxRetriesArg
    /\ attempt = 0 /\ loads = 0 /\ timeouts = 0 /\ rows = <<>> /\ resultbyb = NoResult
    /\ ended = "" /\ screenshot = ""
ScraperNext ==
    \/ BybitTimeout("done")
    \/ BybitError("done")
    \/ BybitScreenshotFails("done")
    \/ BybitLoaded("done", AllRows)
    \/ BybitFallThrough("done")
ScraperSpec == ScraperInit /\ [][ScraperNext]_vars

\* a direct call of BinanceP2PAPI.get_p2p_listings on any response
BinanceInit ==
    /\ pc = "binance" /\ raised = ""
    /\ CleanIdle /\ ScraperIdle /\ BinanceIdle /\ MainIdle /\ SaverIdle
BinanceNext == BinanceFetch("done", AllAds)
BinanceSpec == BinanceInit /\ [][BinanceNext]_vars

\* direct calls of DataSaver.save_data, the DataSaver rebuilt now and then
Listing(price, merchant) ==
    [price |-> price, available_amount |-> "amount", payment_methods |-> "methods",
     merchant_name |-> merchant]
SaverBybitResults ==
    {None, Failure(TimeoutMessage), BybitParsed(<<>>),
     [BybitParsed(<<>>) EXCEPT !.BYBIT = <<Listing(Decimal(1450, 0), "a1"),
                                           Listing(Decimal(1460, 0), "a2")>>]}
SaverBinanceResults ==
    {Failure(RequestFailedMessage("HTTPError")),
     [success |-> TRUE, BINANCE |-> <<>>],
     [success |-> TRUE, BINANCE |-> <<Listing(Decimal(15555, 1), "b1")>>]}

SaverInit ==
    /\ pc = "saver" /\ raised = ""
    /\ CleanIdle /\ ScraperIdle /\ BinanceIdle /\ MainIdle /\ SaverIdle
SaverSaveData ==
    /\ pc = "saver"
    /\ saves < MaxSaves
    /\ \E byb \in SaverBybitResults, bnb \in SaverBinanceResults :
          /\ resultbyb' = byb
          /\ resultbnb' = bnb
          /\ SaveData(byb, bnb, "saver", "raised")
    /\ UNCHANGED <<max_retries, attempt, loads, timeouts, rows, ended,
                   screenshot, response,
                   cleanVars, mainVars>>
\* DataSaver.__init__ in a new process: directories are made, the stores are
\* not touched
SaverRestart ==
    /\ pc = "saver"
    /\ saves \notin restarts
    /\ restarts' = restarts \cup {saves}
    /\ UNCHANGED <<pc, raised, cleanVars, bybitVars, binanceVars, mainVars,
                   combined_data, saved_files, json_file, excel_file, saves,
                   json_saved, json_failed, json_env>>
SaverNext == SaverSaveData \/ SaverRestart
SaverSpec == SaverInit /\ [][SaverNext]_vars

\* one direct call of DataSaver.save_data on a structured store found in any
\* state: missing, empty, holding records, cut short, or not UTF-8
StoredRecord == CombinedData(None, [success |-> TRUE,
                                    BINANCE |-> <<Listing(Decimal(15555, 1), "b0")>>])
StoreStates ==
    {MissingFile,
     [exists |-> TRUE, text |-> <<>>],
     [exists |-> TRUE, text |-> JsonDump(<<StoredRecord>>)],
     [exists |-> TRUE, text |-> SubSeq(JsonDump(<<StoredRecord>>), 1, 2)],
     [exists |-> TRUE, text |-> <<Token("["), InvalidBytes>>],
     [exists |-> TRUE, text |-> <<InvalidBytes>>]}
StoreInit ==
    /\ pc = "store" /\ raised = ""
    /\ CleanIdle /\ ScraperIdle /\ BinanceIdle /\ MainIdle
    /\ combined_data = NoResult /\ saved_files = NoResult
    /\ json_file \in StoreStates /\ excel_file = MissingExcel
    /\ restarts = {} /\ saves = 0 /\ json_saved = <<>> /\ json_failed = FALSE
    /\ json_env = ""
StoreSaveData ==
    /\ pc = "store"
    /\ \E byb \in SaverBybitResults, bnb \in SaverBinanceResults :
          /\ resultbyb' = byb
          /\ resultbnb' = bnb
          /\ SaveData(byb, bnb, "done", "raised")
    /\ UNCHANGED <<max_retries, attempt, loads, timeouts, rows, ended,
                   screenshot, response, cleanVars, mainVars>>
StoreNext == StoreSaveData
StoreSpec == StoreInit /\ [][StoreNext]_vars

\* one run of main
MainRows ==
    {Row("text", <<"0">>, "full"), Row("text", <<"1">>, "full"),
     Row("text", <<" ", "2">>, "NoSuchElement"), Row("NoSuchElement", <<>>, "full")}
MainAds ==
    {Ad(<<"0">>, WithNick), Ad(<<"2", ".", "5">>, NoNick),
     Without(Ad(<<"1">>, WithNick), "advertiser")}

Init ==
    /\ pc = "main" /\ raised = ""
    /\ CleanIdle /\ BinanceIdle /\ MainIdle /\ SaverIdle
    /\ max_retries = DefaultMaxRetries
    /\ attempt = 0 /\ loads = 0 /\ timeouts = 0 /\ rows = <<>> /\ resultbyb = NoResult
    /\ ended = "" /\ screenshot = ""
Next ==
    \/ MainConstruct
    \/ MainConstructFails
    \/ MainComponents
    \/ MainComponentsFail
    \/ BybitTimeout("binance")
    \/ BybitError("binance")
    \/ BybitScreenshotFails("binance")
    \/ BybitLoaded("binance", MainRows)
    \/ BinanceFetch("rate", MainAds)
    \/ MainRate
    \/ MainSave
    \/ MainSummary
    \/ MainExcept
    \/ MainFinally
Spec == Init /\ [][Next]_vars

(***************************************************************************)
(* Properties.                                                             *)
(***************************************************************************)
HasDigit(s) == \E i \in 1..Len(s) : s[i] \in Digit
\* the text before the first line break
BeforeBreak(s) ==
    IF \E i \in 1..Len(s) : s[i] = NL
    THEN SubSeq(s, 1, (CHOOSE i \in 1..Len(s) :
                          s[i] = NL /\ \A j \in 1..(i - 1) : s[j] # NL) - 1)
    ELSE s
PointCount(s) == Cardinality({i \in 1..Len(s) : s[i] = "."})
\* digits of s to the right of position i
DigitsRightOf(s, i) == Cardinality({j \in (i + 1)..Len(s) : s[j] \in Digit})
\* the digits of s read as one integer, the point ignored
RECURSIVE WrittenDigits(_, _)
WrittenDigits(s, i) ==
    IF i = 0 THEN 0
    ELSE WrittenDigits(s, i - 1)
         + (IF s[i] \in Digit THEN DigitVal(s[i]) * Pow10(DigitsRightOf(s, i)) ELSE 0)
\* digits written after the point of s
FractionDigits(s) ==
    IF PointCount(s) = 0 THEN 0
    ELSE DigitsRightOf(s, CHOOSE i \in 1..Len(s) : s[i] = ".")
\* v is a non-negative number equal to the digits and the point written in s
IsNumberWrittenIn(v, s) ==
    /\ IsFloat(v)
    /\ v.m >= 0
    /\ v.m * Pow10(FractionDigits(s)) = WrittenDigits(s, Len(s)) * Pow10(v.e)

WellFormed(r) ==
    /\ r.cell = "text" /\ r.info # "Stale"
    /\ clean_price(strip(r.text)) # None
IsSuccess(r) == "success" \in DOMAIN r /\ r.success = TRUE
ListingCount(r) == IF "BYBIT" \in DOMAIN r THEN Len(r.BYBIT) ELSE 0

\* C3: in a source-A fetch whose page loaded, a malformed row lowers the
\* listing count by at most one against the same page with that row
\* well-formed, and the result has success = true.
C3_RowTolerance ==
    (pc = "done" /\ rows # <<>>) =>
        /\ IsSuccess(resultbyb)
        /\ \A i \in 1..Len(rows) : \A w \in {r \in AllRows : WellFormed(r)} :
              ListingCount(BybitParsed([rows EXCEPT ![i] = w]))
                  <= ListingCount(resultbyb) + 1

C3_Witness ==
    /\ pc = "done" /\ Len(rows) = 2
    /\ rows[1].cell = "text" /\ rows[1].info = "Stale" /\ WellFormed(rows[2])
    /\ IsSuccess(resultbyb) /\ Len(resultbyb.BYBIT) = 1

\* C5: when every attempt of get_p2p_listings(max_retries = N), N >= 1, times
\* out, exactly N page loads are made and the result has success = false,
\* the timeout message and no listings.
C5_AllTimeouts ==
    (pc = "done" /\ max_retries >= 1 /\ timeouts = loads) =>
        /\ loads = max_retries
        /\ "success" \in DOMAIN resultbyb /\ resultbyb.success = FALSE
        /\ resultbyb.message = TimeoutMessage
        /\ "BYBIT" \notin DOMAIN resultbyb

C5_Witness ==
    /\ pc = "done" /\ max_retries = 3 /\ timeouts = 3 /\ loads = 3
    /\ resultbyb = Failure(TimeoutMessage)

\* the records of the claim: adv, adv.price, adv.surplusAmount,
\* adv.tradeMethods or advertiser missing, or a price that is no number
Malformed(ad) ==
    \/ "adv" \notin DOMAIN ad
    \/ "advertiser" \notin DOMAIN ad
    \/ /\ "adv" \in DOMAIN ad
       /\ \/ {"price", "surplusAmount", "tradeMethods"} \ DOMAIN ad.adv # {}
          \/ /\ "price" \in DOMAIN ad.adv
             /\ apifloat(ad.adv.price) = ValueError
HasData(resp) ==
    /\ resp # NoResponse /\ resp.exc = "" /\ resp.status = 200
    /\ resp.body = "dict" /\ "data" \in DOMAIN resp.json
IsFailure(r) == "success" \in DOMAIN r /\ r.success = FALSE
NoListings(r) == "BYBIT" \notin DOMAIN r /\ "BINANCE" \notin DOMAIN r

\* C4: when a record of the data array is malformed, the Binance client
\* returns success = false and no listing at all, however many well-formed
\* records came before it.
C4_MalformedRecordFails ==
    (pc = "done" /\ HasData(response)
        /\ \E i \in 1..Len(response.json.data) : Malformed(response.json.data[i])) =>
        /\ raised = ""
        /\ IsFailure(resultbnb)
        /\ NoListings(resultbnb)

C4_Witness ==
    /\ pc = "done" /\ HasData(response)
    /\ Len(response.json.data) = 2
    /\ ~Malformed(response.json.data[1]) /\ Malformed(response.json.data[2])
    /\ IsFailure(resultbnb) /\ NoListings(resultbnb)

RequestFailed(resp) == resp # NoResponse /\ (resp.exc # "" \/ resp.status >= 400)

\* C6: when the HTTP request ends in a request-level failure, the Binance
\* client returns, without raising, success = false, a message that names a
\* request failure, and no listings.
C6_RequestFailure ==
    (pc \in {"done", "except"} /\ RequestFailed(response)) =>
        /\ raised = "" /\ pc = "done"
        /\ IsFailure(resultbnb)
        /\ resultbnb.message \in {RequestFailedMessage(e) : e \in RequestExceptions}
        /\ NoListings(resultbnb)

C6_Witness ==
    /\ pc = "done" /\ response # NoResponse /\ response.exc = "" /\ response.status = 503
    /\ resultbnb = Failure(RequestFailedMessage("HTTPError"))

\* every price of ls is positive and ls ascends by price
SortedPositive(ls) ==
    /\ \A i \in 1..(Len(ls) - 1) : Leq(ls[i].price, ls[i + 1].price)
    /\ \A i \in 1..Len(ls) : ls[i].price.m > 0

\* C2: every successful result of either client is sorted ascending by price
\* and all of its prices are strictly positive.
C2_SortedPositive ==
    /\ IsSuccess(resultbyb) => SortedPositive(resultbyb.BYBIT)
    /\ IsSuccess(resultbnb) => SortedPositive(resultbnb.BINANCE)

HasCheapest(d, k) == IsSuccess(d) /\ k \in DOMAIN d /\ d[k] # <<>>

\* C7: when the cheapest listing of a source does not exist, the run ends
\* with an explicit insufficient-data outcome, not with a key or index error.
C7_ExplicitInsufficientData ==
    (pc = "done" /\ (~HasCheapest(resultbyb, "BYBIT") \/ ~HasCheapest(resultbnb, "BINANCE"))) =>
        /\ raised \notin {"KeyError", "IndexError"}
        /\ \E i \in 1..Len(output) : output[i] = "insufficient data for rate derivation"

\* C8: when both sources return at least one listing, the rate attached to
\* source A's result equals (1000 / first price of B) * first price of A.
C8_RateAttached ==
    (pc = "done" /\ HasCheapest(resultbyb, "BYBIT") /\ HasCheapest(resultbnb, "BINANCE")) =>
        /\ "RATE" \in DOMAIN resultbyb
        /\ LET pa == resultbyb.BYBIT[1].price
               pb == resultbnb.BINANCE[1].price
           IN  resultbyb.RATE.num * pb.m * Pow10(pa.e)
                   = 1000 * Pow10(pb.e) * pa.m * resultbyb.RATE.den

Contributes(d, k) == IsSuccess(d) /\ k \in DOMAIN d /\ Len(d[k]) > 0

\* C9: the combined record of save_data has success = true exactly when a
\* source is successful with a non-empty listing sequence; a contributing
\* source's listings are in the record unchanged and in order, and any other
\* source is there as an empty sequence.
C9_CombinedRecord ==
    (pc = "saver" /\ combined_data # NoResult) =>
        /\ {"success", "bybit", "binance"} \subseteq DOMAIN combined_data
        /\ combined_data.success
               = (Contributes(resultbyb, "BYBIT") \/ Contributes(resultbnb, "BINANCE"))
        /\ combined_data.bybit
               = IF Contributes(resultbyb, "BYBIT") THEN resultbyb.BYBIT ELSE <<>>
        /\ combined_data.binance
               = IF Contributes(resultbnb, "BINANCE") THEN resultbnb.BINANCE ELSE <<>>

C9_Witness ==
    /\ pc = "saver" /\ combined_data # NoResult
    /\ IsFailure(resultbyb) /\ Contributes(resultbnb, "BINANCE")
    /\ combined_data.success
    /\ combined_data.bybit = <<>>
    /\ combined_data.binance = resultbnb.BINANCE

\* C10: from a missing structured store, after N successful JSON saves and
\* any restarts between them, reading the store back gives exactly the N
\* saved records in the order they were saved.
C10_ReadBack ==
    ~json_failed =>
        IF json_saved = <<>> THEN ~json_file.exists
        ELSE /\ json_file.exists
             /\ JsonLoad(json_file.text) = Completed(json_saved)

C10_Witness ==
    /\ ~json_failed /\ saves = 2 /\ restarts = {1}
    /\ Len(json_saved) = 2 /\ json_saved[1] # json_saved[2]
    /\ JsonLoad(json_file.text) = Completed(json_saved)

InOutput(line) == \E i \in 1..Len(output) : output[i] = line
ErrorReported == \E e \in Exceptions : InOutput("Error in main execution: " \o e)

\* C11: when a writer of save_data fails, it returns None instead of
\* raising, save_data still returns its mapping, and main is not aborted by
\* the failure: no writer's exception reaches main and the results of both
\* sources are summarized.
C11_PersistenceFailureTolerated ==
    (saves = 1 /\ (json_env # "ok" \/ excel_file.state # "ok")) =>
        /\ raised \notin {"OSError", "ValueError", "UnicodeDecodeError"}
        /\ pc \in {"summary", "except", "finally", "done"}
        /\ DOMAIN saved_files = {"continuous_excel_path", "continuous_json_path"}
        /\ json_env # "ok" => saved_files.continuous_json_path = None
        /\ excel_file.state # "ok" => saved_files.continuous_excel_path = None
        /\ pc # "summary" =>
              /\ InOutput("P2P Listing Scraping Results:")
              /\ InOutput("Bybit Results:")
              /\ InOutput("Binance Results:")

C11_Witness ==
    /\ pc = "done" /\ saves = 1
    /\ json_env = "OSError" /\ json_file.exists /\ excel_file.state = "corrupt"
    /\ saved_files = [continuous_excel_path |-> None, continuous_json_path |-> None]
    /\ InOutput("Bybit Results:") /\ InOutput("Binance Results:")

\* C12: a finished run of main has printed the summary of both sources when
\* both returned listings, and otherwise the failure line of every source
\* that failed or returned no listings.
C12_SummaryOrReasons ==
    pc = "done" =>
        IF HasCheapest(resultbyb, "BYBIT") /\ HasCheapest(resultbnb, "BINANCE")
        THEN InOutput("Bybit Results:") /\ InOutput("Binance Results:")
        ELSE /\ ~HasCheapest(resultbyb, "BYBIT")
                   => InOutput("Bybit scraping failed or returned no data")
             /\ ~HasCheapest(resultbnb, "BINANCE")
                   => InOutput("Binance API call failed or returned no data")

\* C13: when a run of main has ended, a browser session that was opened has
\* been quit, whichever step failed.
C13_SessionReleased ==
    (pc \in {"done", "crashed"} /\ driver # "none") => driver = "quit"

\* C14: an attempt that ends in an exception other than a timeout ends the
\* call there with success = false and the exception's message, whatever
\* attempts remain; a timeout on an attempt that is not the last leaves the
\* call running with the next attempt due.
C14_ErrorEndsCall ==
    /\ (ended \notin {"", "loaded", "TimeoutException"}) =>
          /\ pc = "done"
          /\ IsFailure(resultbyb)
          /\ resultbyb.message = ErrorMessage(ended)
          /\ loads = attempt + 1
    /\ (ended = "TimeoutException" /\ loads < max_retries) =>
          /\ pc = "bybit"
          /\ attempt = loads
          /\ resultbyb = NoResult

C14_Witness ==
    /\ pc = "done" /\ ended = "StaleElementReferenceException"
    /\ timeouts = 1 /\ loads = 2 /\ max_retries = 3
    /\ resultbyb = Failure(ErrorMessage("StaleElementReferenceException"))

\* C15: when the screenshot of a loaded page fails, the call still returns
\* success = true with the listings of the page.
C15_ScreenshotBestEffort ==
    (pc = "done" /\ screenshot \in {"not written", "raised"}) =>
        IsSuccess(resultbyb) /\ "BYBIT" \in DOMAIN resultbyb

\* C16, as stated: once a client has returned its result, no step of main
\* or save_data changes it.
C16_NeverMutated ==
    [][/\ resultbyb # NoResult => resultbyb' = resultbyb
       /\ resultbnb # NoResult => resultbnb' = resultbnb]_vars

\* C16, amended: once returned, source B's result is never changed, and
\* source A's result is changed only by the rate derivation, which adds the
\* one field RATE and leaves every other field and every listing as it was.
C16_OnlyRateAdded ==
    [][/\ resultbnb # NoResult => resultbnb' = resultbnb
       /\ resultbyb # NoResult =>
             \/ resultbyb' = resultbyb
             \/ /\ pc = "rate"
                /\ "RATE" \notin DOMAIN resultbyb
                /\ DOMAIN resultbyb' = DOMAIN resultbyb \cup {"RATE"}
                /\ \A k \in DOMAIN resultbyb : resultbyb'[k] = resultbyb[k]
                /\ resultbyb'.RATE = Rate(resultbyb, resultbnb).value]_vars

C16_Witness ==
    /\ pc = "done" /\ saves = 1
    /\ "RATE" \in DOMAIN resultbyb /\ "metadata" \in DOMAIN resultbyb
    /\ resultbyb.BYBIT = combined_data.bybit

\* a store save_to_continuous_json cannot read records from
Unusable(file) == ~file.exists \/ file.text = <<>> \/ JsonLoad(file.text).raised # ""

\* C17: when save_to_continuous_json is called on a store that is missing,
\* empty or undecodable and the file system does not fail, it returns the
\* store path and the store then holds the new record alone.
C17_UnusableStoreStartsEmpty ==
    [][(pc = "store" /\ Unusable(json_file) /\ json_env' = "ok") =>
          /\ saved_files'.continuous_json_path = continuous_json_path
          /\ JsonLoad(json_file'.text) = Completed(<<combined_data'>>)]_vars

\* C18: a run of main in which both sources returned listings and both
\* stores were written ends without an exception and without an
\* 'Error in main execution' line.
C18_SuccessfulRunNoHandler ==
    (/\ pc = "done" /\ saves = 1
     /\ saved_files = [continuous_excel_path |-> continuous_excel_path,
                       continuous_json_path |-> continuous_json_path]) =>
        raised = "" /\ ~ErrorReported

\* C19: save_data has been called only if both sources returned success
\* with a listing; once the fetches are over and a source has failed or has
\* no listing, save_data is not called and both stores are as the run found
\* them.
C19_SaveOnlyWithBoth ==
    /\ saves > 0 => HasCheapest(resultbyb, "BYBIT") /\ HasCheapest(resultbnb, "BINANCE")
    /\ (/\ pc \in {"save", "summary", "except", "finally", "done"}
        /\ ~HasCheapest(resultbyb, "BYBIT") \/ ~HasCheapest(resultbnb, "BINANCE")) =>
          /\ pc # "save" /\ pc # "summary"
          /\ saves = 0
          /\ json_file = MissingFile /\ excel_file = MissingExcel

C19_Witness ==
    /\ pc = "done" /\ saves = 0
    /\ HasCheapest(resultbnb, "BINANCE")
    /\ IsSuccess(resultbyb) /\ resultbyb.BYBIT = <<>>
    /\ json_file = MissingFile /\ excel_file = MissingExcel

\* C20: whatever max_retries >= 0 it was called with, a call of
\* get_p2p_listings that has returned gave an envelope with a boolean
\* success field.
C20_AlwaysEnvelope ==
    pc = "done" =>
        "success" \in DOMAIN resultbyb /\ resultbyb.success \in BOOLEAN

\* the listings of a sequence of combined records
RECURSIVE ListingTotal(_)
ListingTotal(records) ==
    IF records = <<>> THEN 0
    ELSE Len(Head(records).bybit) + Len(Head(records).binance)
             + ListingTotal(Tail(records))
\* both stores can be read: the workbook opens, and the JSON file is missing
\* or holds a list of records
Readable ==
    /\ excel_file.state # "corrupt"
    /\ json_file.exists => JsonLoad(json_file.text).raised = ""
StoredListings ==
    IF json_file.exists THEN ListingTotal(JsonLoad(json_file.text).value) ELSE 0

\* C21: after any sequence of save_data calls, whenever both stores can be
\* read, the tabular store has as many rows as the records of the
\* structured store have listings.
C21_StoresInStep ==
    Readable => Len(excel_file.rows) = StoredListings

====
